---- MODULE Spec2Model ----
(***************************************************************************)
(* A model of the configuration-driven bridge of greeran/web-backend-server*)
(* (upload_server.js, upload_server.mjs).                                  *)
(*                                                                         *)
(* The repository holds three copies of the server.  The variable `copy`   *)
(* says which one runs:                                                    *)
(*   "js"     upload_server.js lines 1-388   (the current CommonJS server) *)
(*   "mjs"    upload_server.mjs              (the ES-module server)        *)
(*   "legacy" upload_server.js lines 389-530 (the first server: wildcard   *)
(*            subscription, no configuration validation)                   *)
(*                                                                         *)
(* Strings that the code inspects character by character (paths, file      *)
(* names) are sequences of one-character strings; bus topics are the       *)
(* sequences of their '/'-separated segments; identifiers that the code    *)
(* only compares are TLA+ strings.  The empty string/sequence stands for   *)
(* both a missing and an empty JavaScript string: the code tests them with *)
(* `!x`, which is true of both.                                            *)
(***************************************************************************)
EXTENDS Integers, Sequences, FiniteSets, TLC

\* ------------------------------------------------------------------------
\* Bounds of the model
\* ------------------------------------------------------------------------
\* members in a start-up configuration (over all tabs)
MaxMembers == 3
\* characters in the path parameter of a browse request
MaxPathLen == 5
\* 'connect' events of the broker connection
MaxConnects == 2
\* bus messages handled
MaxMessages == 2
\* HTTP requests answered
MaxRequests == 2
\* HTTP requests waiting for an asynchronous file-system call
MaxInflight == 2

\* ------------------------------------------------------------------------
\* Character strings
\* ------------------------------------------------------------------------
SLASH == "/"
BACKSLASH == "\\"
DOT == "."

RECURSIVE Concat(_)
\* the concatenation of a sequence of strings
Concat(ss) == IF ss = <<>> THEN <<>> ELSE Head(ss) \o Concat(Tail(ss))

\* String.prototype.startsWith
StartsWith(s, p) == Len(p) <= Len(s) /\ SubSeq(s, 1, Len(p)) = p

RECURSIVE SplitOn(_, _)
\* String.prototype.split(sep) for a one-character separator: never empty
SplitOn(s, sep) ==
  IF \A i \in 1..Len(s) : s[i] # sep THEN <<s>>
  ELSE LET k == CHOOSE i \in 1..Len(s) : s[i] = sep /\ \A j \in 1..(i-1) : s[j] # sep
       IN <<SubSeq(s, 1, k-1)>> \o SplitOn(SubSeq(s, k+1, Len(s)), sep)

RECURSIVE JoinWith(_, _)
\* Array.prototype.join(sep)
JoinWith(segs, sep) ==
  IF segs = <<>> THEN <<>>
  ELSE IF Len(segs) = 1 THEN segs[1]
  ELSE segs[1] \o <<sep>> \o JoinWith(Tail(segs), sep)

\* ------------------------------------------------------------------------
\* node:path (posix)
\* ------------------------------------------------------------------------
isAbsolute(p) == Len(p) > 0 /\ p[1] = SLASH

RECURSIVE NormalizeSegs(_, _, _)
\* normalizeString of node:path: drops '' and '.', lets '..' remove the segment
\* before it; above the root '..' is dropped, in a relative path it is kept
NormalizeSegs(segs, acc, abs) ==
  IF segs = <<>> THEN acc
  ELSE LET s == Head(segs) IN
    IF s = <<>> \/ s = <<DOT>> THEN NormalizeSegs(Tail(segs), acc, abs)
    ELSE IF s = <<DOT, DOT>> THEN
      IF acc # <<>> /\ acc[Len(acc)] # <<DOT, DOT>>
        THEN NormalizeSegs(Tail(segs), SubSeq(acc, 1, Len(acc)-1), abs)
      ELSE IF abs THEN NormalizeSegs(Tail(segs), acc, abs)
      ELSE NormalizeSegs(Tail(segs), Append(acc, s), abs)
    ELSE NormalizeSegs(Tail(segs), Append(acc, s), abs)

\* path.normalize
normalize(p) ==
  IF p = <<>> THEN <<DOT>>
  ELSE LET abs == isAbsolute(p)
           trailing == p[Len(p)] = SLASH
           body == JoinWith(NormalizeSegs(SplitOn(p, SLASH), <<>>, abs), SLASH)
           body2 == IF body = <<>> /\ ~abs THEN <<DOT>> ELSE body
           body3 == IF body2 # <<>> /\ trailing THEN body2 \o <<SLASH>> ELSE body2
       IN IF abs THEN <<SLASH>> \o body3 ELSE body3

\* path.join of two arguments
join(a, b) ==
  IF a = <<>> /\ b = <<>> THEN <<DOT>>
  ELSE IF a = <<>> THEN normalize(b)
  ELSE IF b = <<>> THEN normalize(a)
  ELSE normalize(a \o <<SLASH>> \o b)

\* the directory of the server script, and the working directory of the process
\* (the server is started from its own directory)
dirname == <<SLASH, "s">>

\* path.resolve of one argument: absolute, normalized, no trailing separator
resolve(p) ==
  LET full == IF isAbsolute(p) THEN p ELSE dirname \o <<SLASH>> \o p
      body == JoinWith(NormalizeSegs(SplitOn(full, SLASH), <<>>, TRUE), SLASH)
  IN <<SLASH>> \o body

\* path.basename of a '/'-separated path
basename(p) ==
  LET segs == SplitOn(p, SLASH) IN segs[Len(segs)]

\* path.extname: from the last '.' of the base name; '' when there is none, when
\* the only '.' is the first character, and for '..'
extname(p) ==
  LET b == basename(p)
      dots == {i \in 1..Len(b) : b[i] = DOT}
  IN IF dots = {} THEN <<>>
     ELSE LET last == CHOOSE i \in dots : \A j \in dots : j <= i
          IN IF last = 1 \/ b = <<DOT, DOT>> THEN <<>>
             ELSE SubSeq(b, last, Len(b))

\* ------------------------------------------------------------------------
\* The configuration (config/config.json)
\* ------------------------------------------------------------------------
\* file extensions and directories that occur in the configurations
ExtT == <<DOT, "t">>
ExtE == <<DOT, "e">>
DirUp == <<"u", "p">>
DirRoot == <<"a">>
\* the literal 'uploads' of the default upload directory
Uploads == <<"u", "p", "l", "o", "a", "d", "s">>

\* an allowed_extensions value: a missing property, or an array (possibly empty)
NoList == [present |-> FALSE, items |-> {}]
List(exts) == [present |-> TRUE, items |-> exts]

Sensor(topic, unit) ==
  [type |-> "sensor", button_name |-> "", topic |-> topic, unit |-> unit,
   publish_topic |-> "", upload_directory |-> <<>>, root_directory |-> <<>>,
   allowed_extensions |-> NoList, max_file_size |-> 0]
Button(name, publish_topic) ==
  [type |-> "button", button_name |-> name, topic |-> <<>>, unit |-> "",
   publish_topic |-> publish_topic, upload_directory |-> <<>>, root_directory |-> <<>>,
   allowed_extensions |-> NoList, max_file_size |-> 0]
Upload(name, dir, exts, max) ==
  [type |-> "upload", button_name |-> name, topic |-> <<>>, unit |-> "",
   publish_topic |-> "", upload_directory |-> dir, root_directory |-> <<>>,
   allowed_extensions |-> exts, max_file_size |-> max]
Download(name, root, exts) ==
  [type |-> "download", button_name |-> name, topic |-> <<>>, unit |-> "",
   publish_topic |-> "", upload_directory |-> <<>>, root_directory |-> root,
   allowed_extensions |-> exts, max_file_size |-> 0]

\* a tab: its id, the upload.upload_directory and download.root_directory
\* properties that the code reads from the tab with id 'files' ('' when the tab
\* has none), and its members
Tab(id, members) == [id |-> id, upload |-> <<>>, download |-> <<>>, members |-> members]

RECURSIVE Flatten(_)
\* the members in the order of `for tab of config.tabs, for member of tab.members`
Flatten(tabs) == IF tabs = <<>> THEN <<>> ELSE Head(tabs).members \o Flatten(Tail(tabs))

\* ------------------------------------------------------------------------
\* Config validation at startup
\* ------------------------------------------------------------------------
NoError == [ok |-> TRUE, error |-> "", name |-> ""]
Error(kind, name) == [ok |-> FALSE, error |-> kind, name |-> name]

HasButtonName(member) ==
  member.type \in {"upload", "download", "button"} /\ member.button_name # ""

\* the required-field checks with the test of an upload's allowed_extensions
\* left out
RequiredFieldsNoUploadExtensions(member) ==
  IF member.type = "upload" /\ member.upload_directory = <<>>
    THEN Error("missing upload_directory", member.button_name)
  ELSE IF member.type = "download" /\ member.root_directory = <<>>
    THEN Error("missing root_directory", member.button_name)
  ELSE IF member.type = "download" /\ ~member.allowed_extensions.present
    THEN Error("missing allowed_extensions", member.button_name)
  ELSE IF member.type = "button" /\ member.publish_topic = ""
    THEN Error("missing publish_topic", member.button_name)
  ELSE NoError

\* the required-field checks of one member, in the order of the code
RequiredFields(member) ==
  IF member.type = "upload" /\ member.upload_directory = <<>>
    THEN Error("missing upload_directory", member.button_name)
  ELSE IF member.type = "upload" /\ ~member.allowed_extensions.present
    THEN Error("missing allowed_extensions", member.button_name)
  ELSE IF member.type = "download" /\ member.root_directory = <<>>
    THEN Error("missing root_directory", member.button_name)
  ELSE IF member.type = "download" /\ ~member.allowed_extensions.present
    THEN Error("missing allowed_extensions", member.button_name)
  ELSE IF member.type = "button" /\ member.publish_topic = ""
    THEN Error("missing publish_topic", member.button_name)
  ELSE NoError

\* the body of the inner loop of validateConfig with the duplicate check left out
CheckMemberNoDuplicates(member, buttonNames) == RequiredFields(member)

\* the body of the inner loop with the required-field checks before the
\* duplicate check
CheckMemberFieldsFirst(member, buttonNames) ==
  IF ~RequiredFields(member).ok THEN RequiredFields(member)
  ELSE IF HasButtonName(member) /\ member.button_name \in buttonNames
    THEN Error("duplicate button_name", member.button_name)
  ELSE NoError

\* the body of the inner loop of validateConfig: the error it throws for this
\* member, given the button names collected from the members before it
CheckMember(member, buttonNames) ==
  IF HasButtonName(member) /\ member.button_name \in buttonNames
    THEN Error("duplicate button_name", member.button_name)
  ELSE RequiredFields(member)

RECURSIVE ValidateFrom(_, _)
\* the loops of validateConfig over the remaining members
ValidateFrom(members, buttonNames) ==
  IF members = <<>> THEN NoError
  ELSE LET member == Head(members)
           r == CheckMember(member, buttonNames)
       IN IF ~r.ok THEN r
          ELSE ValidateFrom(Tail(members),
                 IF HasButtonName(member) THEN buttonNames \cup {member.button_name}
                 ELSE buttonNames)

validateConfig(cfg) == ValidateFrom(Flatten(cfg.tabs), {})

\* UPLOAD_DIR, the default upload directory
UPLOAD_DIR(cfg) ==
  LET found == {i \in 1..Len(cfg.tabs) : cfg.tabs[i].id = "files"} IN
  IF found = {} THEN join(dirname, Uploads)
  ELSE LET filesTab == cfg.tabs[CHOOSE i \in found : \A j \in found : i <= j] IN
    IF filesTab.upload = <<>> THEN join(dirname, Uploads)
    ELSE IF isAbsolute(filesTab.upload) THEN filesTab.upload
    ELSE join(dirname, filesTab.upload)

\* ------------------------------------------------------------------------
\* State
\* ------------------------------------------------------------------------
VARIABLES
  copy,              \* which copy of the server runs
  config,            \* the parsed config.json: [tabs |-> <<Tab, ...>>]
  pc,                \* position of the top-level script
  exitError,         \* the error validateConfig threw, when the process exited
  connected,         \* mqttClient.connected
  connectCount,      \* 'connect' events so far
  subscribeRequests, \* topic filters passed to mqttClient.subscribe on the last connect
  pendingSubs,       \* subscribe requests the broker has not answered yet
  brokerSubs,        \* topic filters subscribed at the broker for this connection
  failedSubs,        \* subscribe requests of this connection answered with an error
  reconnects,        \* calls of mqttClient.reconnect() so far
  latestSensorData,  \* the sensor cache: key -> formatted reading
  msgCount,          \* bus messages handled so far (the clock of the readings)
  clients,           \* wss.clients: readyState and the events received so far
  published,         \* messages passed to mqttClient.publish
  files,             \* the file system: path of a file -> its size
  dirs,              \* the file system: the directories
  pending,           \* asynchronous file-system calls in flight
  response           \* the last HTTP response sent

startVars == <<copy, config, pc, exitError>>
busVars == <<connected, connectCount, subscribeRequests, pendingSubs, brokerSubs, failedSubs,
             reconnects>>
hubVars == <<latestSensorData, msgCount, clients>>
fsVars == <<files, dirs>>
httpVars == <<pending, response>>
vars == <<startVars, busVars, hubVars, published, fsVars, httpVars>>

ClientIds == {1, 2}
\* an HTTP response: the handler, the status, the JSON fields of the body, and
\* for a listing the directory read and its entries; seq counts the responses.
\* For a browse response, button_name and traversal remember the request: its
\* button_name and whether its path parameter contained '..'; for an action
\* response button_name is the action of the request.
Resp(seq, kind, status, success, error, filename, listed, entries) ==
  [seq |-> seq, kind |-> kind, status |-> status, success |-> success, error |-> error,
   filename |-> filename, listed |-> listed, entries |-> entries,
   button_name |-> "", traversal |-> FALSE]
NoResponse == Resp(0, "none", 0, FALSE, "", <<>>, <<>>, {})
NoClient == [readyState |-> "none", inbox |-> <<>>]
\* a call of mqttClient.publish: the topic, the fields of a file event or the
\* payload of an action, and for an action the number of the request and
\* whether the connection was down at the call (request 0: a file event)
Publication(topic, filename, size, buttonName, payload, request) ==
  [topic |-> topic, filename |-> filename, size |-> size, button_name |-> buttonName,
   payload |-> payload, request |-> request, offline |-> request # 0 /\ ~connected]

\* the state in which the process is started with configuration cfg and the
\* directories ds and files fs on disk
InitWith(c, cfg, ds, fs) ==
  /\ copy = c
  /\ config = cfg
  /\ pc = "start"
  /\ exitError = NoError
  /\ connected = FALSE
  /\ connectCount = 0
  /\ subscribeRequests = {}
  /\ pendingSubs = {}
  /\ brokerSubs = {}
  /\ failedSubs = {}
  /\ reconnects = 0
  /\ latestSensorData = <<>>
  /\ msgCount = 0
  /\ clients = [c2 \in ClientIds |-> NoClient]
  /\ published = {}
  /\ files = fs
  /\ dirs = ds
  /\ pending = {}
  /\ response = NoResponse

\* ------------------------------------------------------------------------
\* Startup: the top-level statements of the script, in order
\* ------------------------------------------------------------------------
RECURSIVE Ancestors(_)
\* a directory path and all directories above it (mkdir with recursive: true)
Ancestors(p) ==
  IF Len(p) <= 1 THEN {<<SLASH>>}
  ELSE LET segs == SplitOn(p, SLASH)
           parent == JoinWith(SubSeq(segs, 1, Len(segs)-1), SLASH)
       IN {p} \cup Ancestors(IF parent = <<>> THEN <<SLASH>> ELSE parent)

\* fs.mkdirSync(dir, {recursive: true}) of an absolute directory
mkdirSync(ds, dir) == ds \cup Ancestors(resolve(dir))

\* UPLOAD_DIR is computed and created
Load ==
  /\ pc = "start"
  /\ pc' = "loaded"
  /\ dirs' = mkdirSync(dirs, UPLOAD_DIR(config))
  /\ UNCHANGED <<copy, config, exitError, busVars, hubVars, published, files, httpVars>>

\* try { validateConfig(config) } catch { process.exit(1) }; the legacy copy has
\* no validation
Validate ==
  /\ pc = "loaded"
  /\ copy # "legacy"
  /\ LET r == validateConfig(config) IN
       /\ pc' = IF r.ok THEN "validated" ELSE "exited"
       /\ exitError' = r
  /\ UNCHANGED <<copy, config, busVars, hubVars, published, fsVars, httpVars>>

\* mqtt.connect(...): the connection to the broker is opened
MqttConnect ==
  /\ \/ pc = "validated"
     \/ pc = "loaded" /\ copy = "legacy"
  /\ pc' = "broker"
  /\ UNCHANGED <<copy, config, exitError, busVars, hubVars, published, fsVars, httpVars>>

\* server.listen(PORT): the HTTP/WebSocket server accepts connections
Listen ==
  /\ pc = "broker"
  /\ pc' = "listening"
  /\ UNCHANGED <<copy, config, exitError, busVars, hubVars, published, fsVars, httpVars>>

\* the broker connection has been opened
BrokerOpened == pc \in {"broker", "listening"}
\* the server is serving
Serving == pc = "listening"

\* ------------------------------------------------------------------------
\* Startup under all small configurations
\* ------------------------------------------------------------------------
TopicTemperature == <<"sensor", "temperature">>

StartupMembers ==
  { Upload("a", DirUp, List({ExtT}), 0),
    Upload("b", <<>>, List({ExtT}), 0),
    Upload("b", DirUp, NoList, 0),
    Upload("a", DirUp, List({}), 0),
    Download("b", DirRoot, List({ExtT})),
    Download("b", <<>>, List({ExtT})),
    Download("b", DirRoot, NoList),
    Button("a", "cmd/a"),
    Button("b", ""),
    Button("", "cmd/a"),
    Sensor(TopicTemperature, "C") }

\* the configurations of at most MaxMembers members, in one tab or split over two
StartupConfigs ==
  LET lists == UNION {[1..n -> StartupMembers] : n \in 0..MaxMembers} IN
  {[tabs |-> <<Tab("files", ms)>>] : ms \in lists}
  \cup {[tabs |-> <<Tab("files", SubSeq(ms, 1, k)), Tab("main", SubSeq(ms, k+1, Len(ms)))>>] :
          <<ms, k>> \in {<<ms, k>> \in lists \X (0..MaxMembers) : k <= Len(ms)}}

InitStartup ==
  \E c \in {"js", "mjs"}, cfg \in StartupConfigs :
    InitWith(c, cfg, {<<SLASH>>, dirname}, <<>>)

NextStartup == Load \/ Validate \/ MqttConnect \/ Listen

SpecStartup == InitStartup /\ [][NextStartup]_vars

\* ------------------------------------------------------------------------
\* Topic registry and decode dispatch
\* ------------------------------------------------------------------------
TopicCompass == <<"sensor", "compass">>
TopicGps == <<"sensor", "gps">>
TopicStatus == <<"sensor", "status">>
TopicFoo == <<"sensor", "foo">>
TopicPlain == <<"plain">>
TopicDeep == <<"site", "sensor", "temperature">>
\* the wildcard filter 'sensor/#' of the legacy copy
SensorWildcard == <<"sensor", "#">>

RECURSIVE SensorTopicsOf(_)
\* sensorTopics: the topics of the sensor members that have one, in order
SensorTopicsOf(members) ==
  IF members = <<>> THEN <<>>
  ELSE LET member == Head(members) IN
    IF member.type = "sensor" /\ member.topic # <<>>
      THEN <<member.topic>> \o SensorTopicsOf(Tail(members))
      ELSE SensorTopicsOf(Tail(members))

sensorTopics(cfg) == SensorTopicsOf(Flatten(cfg.tabs))
SensorTopicSet(cfg) == {sensorTopics(cfg)[i] : i \in 1..Len(sensorTopics(cfg))}

\* a registry that enters the temperature decoder for every topic it does not
\* know
DecoderForAlways(topic) ==
  IF topic = TopicCompass THEN "CompassData"
  ELSE IF topic = TopicGps THEN "GpsPositionData"
  ELSE IF topic = TopicStatus THEN "StatusMessage"
  ELSE "TemperatureData"

\* the decoder selected for a topic by name; "null" when there is none
DecoderFor(topic) ==
  IF topic = TopicTemperature THEN "TemperatureData"
  ELSE IF topic = TopicCompass THEN "CompassData"
  ELSE IF topic = TopicGps THEN "GpsPositionData"
  ELSE IF topic = TopicStatus THEN "StatusMessage"
  ELSE "null"

\* topicDecoderMap
topicDecoderMap(cfg) == [t \in SensorTopicSet(cfg) |-> DecoderFor(t)]

\* message bodies on the bus: one that the schema decoders accept, one that
\* makes them throw
Bodies == {"b21", "junk"}
\* message bodies that the schema decoders accept: one without and one with a
\* unit embedded in the payload
CacheBodies == {"b21", "b21K"}

\* message.toString('base64'): an injective encoding of the bytes
base64(body) == <<"base64", body>>

NoParsed == [kind |-> "none", hasNumber |-> FALSE, number |-> 0, unit |-> "",
             raw |-> <<>>, error |-> ""]
\* the object a schema decoder returns: its first numeric property and the
\* unit embedded in the payload
Decoded(n, unit) == [kind |-> "decoded", hasNumber |-> TRUE, number |-> n, unit |-> unit,
                     raw |-> <<>>, error |-> ""]
\* { raw: message.toString('base64') } and { raw: ..., error: e.message }
Raw(body) == [kind |-> "raw", hasNumber |-> FALSE, number |-> 0, unit |-> "",
              raw |-> base64(body), error |-> ""]
RawError(body, msg) == [kind |-> "raw", hasNumber |-> FALSE, number |-> 0, unit |-> "",
                        raw |-> base64(body), error |-> msg]

\* the decode capability of sensor_pb.js: the decoded object, or a thrown error
Decode(decoder, body) ==
  IF body = "b21" THEN [ok |-> TRUE, parsed |-> Decoded(21, ""), error |-> ""]
  ELSE IF body = "b21K" THEN [ok |-> TRUE, parsed |-> Decoded(21, "K"), error |-> ""]
  ELSE [ok |-> FALSE, parsed |-> NoParsed, error |-> "decode error"]

\* a message handler without the catch: a failed decode leaves nothing parsed
ParseNoCatch(decoder, body) ==
  IF decoder # "null" THEN Decode(decoder, body).parsed ELSE Raw(body)

\* the try/catch of the message handler: decoder, raw passthrough, raw with error
Parse(decoder, body) ==
  IF decoder # "null"
    THEN LET r == Decode(decoder, body) IN
         IF r.ok THEN r.parsed ELSE RawError(body, r.error)
    ELSE Raw(body)

\* getUnitForTopic: the unit declared on the first sensor member with the topic
getUnitForTopic(cfg, topic) ==
  LET ms == Flatten(cfg.tabs)
      hits == {i \in 1..Len(ms) : ms[i].type = "sensor" /\ ms[i].topic = topic}
  IN IF hits = {} THEN "" ELSE ms[CHOOSE i \in hits : \A j \in hits : i <= j].unit

\* a cached reading.  shape "reading": {value, unit, timestamp[, description]},
\* where value is a number or the whole parsed object; shape "parsed": the
\* parsed object itself
Reading(parsed, unit, timestamp, description) ==
  [shape |-> "reading", isNumber |-> parsed.hasNumber,
   number |-> IF parsed.hasNumber THEN parsed.number ELSE 0,
   object |-> IF parsed.hasNumber THEN NoParsed ELSE parsed,
   unit |-> unit, timestamp |-> timestamp, description |-> description]
AsParsed(parsed) ==
  [shape |-> "parsed", isNumber |-> FALSE, number |-> 0, object |-> parsed,
   unit |-> "", timestamp |-> 0, description |-> ""]

\* formatSensorData of upload_server.js
formatSensorDataJs(cfg, topic, parsed, now) ==
  Reading(parsed, getUnitForTopic(cfg, topic), now, "")

\* formatSensorData of upload_server.mjs (temperature and compass readings have
\* a number; everything else is returned as it was parsed)
formatSensorDataMjs(topic, parsed, now) ==
  IF topic = TopicTemperature /\ parsed.hasNumber
    THEN Reading(parsed, IF parsed.unit # "" THEN parsed.unit ELSE "C", now, "CPU Temperature")
  ELSE IF topic = TopicCompass /\ parsed.hasNumber
    THEN Reading(parsed, IF parsed.unit # "" THEN parsed.unit ELSE "degrees", now, "Compass Heading")
  ELSE AsParsed(parsed)

\* the key of updateLatestSensorData: topic.split('/')[1] || topic
SensorKey(topic) ==
  IF Len(topic) >= 2 /\ topic[2] # "" THEN <<topic[2]>> ELSE topic

\* latestSensorData[key] = reading
CachePut(cache, key, reading) ==
  [k \in DOMAIN cache \cup {key} |-> IF k = key THEN reading ELSE cache[k]]

\* ------------------------------------------------------------------------
\* Broadcast hub
\* ------------------------------------------------------------------------
\* an init event without the snapshot
InitEventNoSnapshot(cache) ==
  [type |-> "init", sensor |-> <<>>, topic |-> <<>>, data |-> AsParsed(NoParsed),
   sensors |-> <<>>]

\* {type: 'init', sensors: latestSensorData}
InitEvent(cache) ==
  [type |-> "init", sensor |-> <<>>, topic |-> <<>>, data |-> AsParsed(NoParsed),
   sensors |-> cache]
\* {type: 'sensor_update', sensor: topic.split('/')[1], data}; sensor is <<>>
\* when split('/')[1] is undefined
SensorUpdate(topic, reading) ==
  [type |-> "sensor_update", sensor |-> IF Len(topic) >= 2 THEN <<topic[2]>> ELSE <<>>,
   topic |-> <<>>, data |-> reading, sensors |-> <<>>]
\* {type: 'sensor_update', topic, data} of the legacy copy
SensorUpdateLegacy(topic, parsed) ==
  [type |-> "sensor_update", sensor |-> <<>>, topic |-> topic, data |-> AsParsed(parsed),
   sensors |-> <<>>]

\* a broadcast that does not look at readyState
broadcastWSAll(cl, event) ==
  [c \in DOMAIN cl |->
     IF cl[c].readyState # "none"
       THEN [cl[c] EXCEPT !.inbox = Append(@, event)]
       ELSE cl[c]]

\* a broadcast that puts the event before the events sent earlier
broadcastWSFront(cl, event) ==
  [c \in DOMAIN cl |->
     IF cl[c].readyState = "open"
       THEN [cl[c] EXCEPT !.inbox = <<event>> \o @]
       ELSE cl[c]]

\* broadcastWS: the event is sent to every client with readyState OPEN
broadcastWS(cl, event) ==
  [c \in DOMAIN cl |->
     IF cl[c].readyState = "open"
       THEN [cl[c] EXCEPT !.inbox = Append(@, event)]
       ELSE cl[c]]

\* wss.on('connection'): a client connects and is sent the init event
WsConnection(c) ==
  /\ pc = "listening"
  /\ clients[c].readyState = "none"
  /\ clients' = [clients EXCEPT ![c] =
                   [readyState |-> "open", inbox |-> <<InitEvent(latestSensorData)>>]]
  /\ UNCHANGED <<startVars, busVars, latestSensorData, msgCount, published, fsVars, httpVars>>

\* a client starts to close: it stays in wss.clients with readyState CLOSING
WsClosing(c) ==
  /\ clients[c].readyState = "open"
  /\ clients' = [clients EXCEPT ![c].readyState = "closing"]
  /\ UNCHANGED <<startVars, busVars, latestSensorData, msgCount, published, fsVars, httpVars>>

\* the close completes: the client is removed from wss.clients
WsClosed(c) ==
  /\ clients[c].readyState = "closing"
  /\ clients' = [clients EXCEPT ![c] = NoClient]
  /\ UNCHANGED <<startVars, busVars, latestSensorData, msgCount, published, fsVars, httpVars>>

\* ------------------------------------------------------------------------
\* Broker connection
\* ------------------------------------------------------------------------
\* the topic filters the 'connect' handler subscribes to, with the legacy
\* filter for every copy
SubscribeFiltersWildcard(c, cfg) == {SensorWildcard}

\* the topic filters the 'connect' handler passes to mqttClient.subscribe
SubscribeFilters(c, cfg) ==
  IF c = "legacy" THEN {SensorWildcard} ELSE SensorTopicSet(cfg)

\* mqttClient.on('connect'): every (re)connect starts a clean session and
\* issues the subscribe requests
OnConnect ==
  /\ pc = "listening"
  /\ ~connected
  /\ connectCount < MaxConnects
  /\ connected' = TRUE
  /\ connectCount' = connectCount + 1
  /\ subscribeRequests' = SubscribeFilters(copy, config)
  /\ pendingSubs' = SubscribeFilters(copy, config)
  /\ brokerSubs' = {}
  /\ failedSubs' = {}
  /\ UNCHANGED <<startVars, reconnects, hubVars, published, fsVars, httpVars>>

\* the broker grants a subscribe request: the callback logs 'Subscribed to'
SubAck(t) ==
  /\ connected
  /\ t \in pendingSubs
  /\ pendingSubs' = pendingSubs \ {t}
  /\ brokerSubs' = brokerSubs \cup {t}
  /\ UNCHANGED <<startVars, connected, connectCount, subscribeRequests, failedSubs,
                 reconnects, hubVars, published, fsVars, httpVars>>

\* a subscribe request fails: the callback logs 'Failed to subscribe' and
\* nothing else happens
SubError(t) ==
  /\ connected
  /\ t \in pendingSubs
  /\ pendingSubs' = pendingSubs \ {t}
  /\ failedSubs' = failedSubs \cup {t}
  /\ UNCHANGED <<startVars, connected, connectCount, subscribeRequests, brokerSubs,
                 reconnects, hubVars, published, fsVars, httpVars>>

\* the connection to the broker is lost
OnClose ==
  /\ connected
  /\ connected' = FALSE
  /\ pendingSubs' = {}
  /\ brokerSubs' = {}
  /\ UNCHANGED <<startVars, connectCount, subscribeRequests, failedSubs,
                 reconnects, hubVars, published, fsVars, httpVars>>

\* an MQTT topic filter matches a topic: equal, or a '#' suffix after a prefix
Matches(filter, topic) ==
  \/ filter = topic
  \/ /\ filter[Len(filter)] = "#"
     /\ Len(topic) >= Len(filter) - 1
     /\ SubSeq(topic, 1, Len(filter) - 1) = SubSeq(filter, 1, Len(filter) - 1)

\* the message handler of upload_server.js (first copy) and upload_server.mjs
HandleMessage(topic, body) ==
  IF \E i \in 1..Len(sensorTopics(config)) : sensorTopics(config)[i] = topic
    THEN LET parsed == Parse(topicDecoderMap(config)[topic], body)
             formatted == IF copy = "js"
                            THEN formatSensorDataJs(config, topic, parsed, msgCount + 1)
                            ELSE formatSensorDataMjs(topic, parsed, msgCount + 1)
         IN /\ latestSensorData' = CachePut(latestSensorData, SensorKey(topic), formatted)
            /\ clients' = broadcastWS(clients, SensorUpdate(topic, formatted))
    ELSE UNCHANGED <<latestSensorData, clients>>

\* the message handler of the legacy copy
HandleMessageLegacy(topic, body) ==
  IF Len(topic) >= 2 /\ topic[1] = "sensor"
    THEN LET parsed == Parse(DecoderFor(topic), body)
         IN /\ latestSensorData' = CachePut(latestSensorData, topic, parsed)
            /\ clients' = broadcastWS(clients, SensorUpdateLegacy(topic, parsed))
    ELSE UNCHANGED <<latestSensorData, clients>>

\* mqttClient.on('message'): the broker delivers a message on a topic that a
\* granted subscription of this connection matches
OnMessage(topic, body) ==
  /\ connected
  /\ msgCount < MaxMessages
  /\ \E f \in brokerSubs : Matches(f, topic)
  /\ msgCount' = msgCount + 1
  /\ IF copy = "legacy" THEN HandleMessageLegacy(topic, body) ELSE HandleMessage(topic, body)
  /\ UNCHANGED <<startVars, busVars, published, fsVars, httpVars>>

\* ------------------------------------------------------------------------
\* The bus specification: startup, broker connection, messages, clients
\* ------------------------------------------------------------------------
Topics == {TopicTemperature, TopicFoo, TopicPlain, TopicDeep, <<"other", "x">>}

\* configurations without sensors, with one sensor, with two sensors in two
\* tabs, with a sensor member that has no topic, and with a sensor whose
\* topic has three segments
BusConfigs ==
  { [tabs |-> <<Tab("main", <<>>)>>],
    [tabs |-> <<Tab("main", <<Sensor(TopicTemperature, "C")>>)>>],
    [tabs |-> <<Tab("main", <<Sensor(TopicTemperature, "")>>),
                Tab("aux", <<Sensor(TopicPlain, "")>>)>>],
    [tabs |-> <<Tab("main", <<Sensor(<<>>, ""), Sensor(TopicFoo, "")>>)>>],
    [tabs |-> <<Tab("main", <<Sensor(TopicDeep, "C")>>)>>] }

InitBus ==
  \E c \in {"js", "mjs", "legacy"}, cfg \in BusConfigs :
    InitWith(c, cfg, {<<SLASH>>, dirname}, <<>>)

NextBus ==
  \/ Load \/ Validate \/ MqttConnect \/ Listen
  \/ OnConnect \/ OnClose
  \/ \E t \in SensorTopicSet(config) \cup {SensorWildcard} : SubAck(t) \/ SubError(t)
  \/ \E t \in Topics, b \in Bodies : OnMessage(t, b)
  \/ \E c \in ClientIds : WsConnection(c) \/ WsClosing(c) \/ WsClosed(c)

SpecBus == InitBus /\ [][NextBus]_vars

\* ------------------------------------------------------------------------
\* The cache specification: startup, broker connection, decodable messages
\* on the topics of sensors with and without a declared unit, clients
\* ------------------------------------------------------------------------
TopicOtherTemperature == <<"other", "temperature">>

\* a temperature sensor with a declared unit; one without; two sensors whose
\* topics have the same second segment
CacheConfigs ==
  { [tabs |-> <<Tab("main", <<Sensor(TopicTemperature, "F")>>)>>],
    [tabs |-> <<Tab("main", <<Sensor(TopicTemperature, "")>>)>>],
    [tabs |-> <<Tab("main", <<Sensor(TopicTemperature, ""),
                              Sensor(TopicOtherTemperature, "C")>>)>>] }

InitCache ==
  \E c \in {"js", "mjs"}, cfg \in CacheConfigs :
    InitWith(c, cfg, {<<SLASH>>, dirname}, <<>>)

NextCache ==
  \/ Load \/ Validate \/ MqttConnect \/ Listen
  \/ OnConnect
  \/ \E t \in SensorTopicSet(config) : SubAck(t)
  \/ \E t \in SensorTopicSet(config), b \in CacheBodies : OnMessage(t, b)
  \/ \E c \in ClientIds : WsConnection(c)

SpecCache == InitCache /\ [][NextCache]_vars

\* ------------------------------------------------------------------------
\* File system
\* ------------------------------------------------------------------------
\* the directory that holds an absolute, normalized path
Parent(path) ==
  LET segs == SplitOn(path, SLASH)
      up == JoinWith(SubSeq(segs, 1, Len(segs) - 1), SLASH)
  IN IF up = <<>> THEN <<SLASH>> ELSE up

\* a file is written (created or overwritten) / removed
WriteFile(fs, path, size) ==
  [q \in DOMAIN fs \cup {path} |-> IF q = path THEN size ELSE fs[q]]
RemoveFile(fs, path) == [q \in DOMAIN fs \ {path} |-> fs[q]]

\* fs.existsSync
existsSync(fs, ds, path) == resolve(path) \in DOMAIN fs \/ resolve(path) \in ds

\* fs.readdir: the names of the entries of a directory
ReaddirNames(fs, ds, dir) ==
  {basename(q) : q \in {q \in DOMAIN fs \cup (ds \ {<<SLASH>>}) : Parent(q) = resolve(dir)}}

\* ------------------------------------------------------------------------
\* Policy resolution
\* ------------------------------------------------------------------------
NoMember == Sensor(<<>>, "")

\* the loops of getUploadConfig / getDownloadConfig: the first member of the
\* type whose button_name is the requested one, or the first member of the
\* type when no button_name is requested; NoMember stands for null
FirstMember(cfg, type, buttonName) ==
  LET ms == Flatten(cfg.tabs)
      hits == {i \in 1..Len(ms) :
                 /\ ms[i].type = type
                 /\ buttonName = "" \/ ms[i].button_name = buttonName}
  IN IF hits = {} THEN NoMember ELSE ms[CHOOSE i \in hits : \A j \in hits : i <= j]

getUploadConfig(cfg, buttonName) == FirstMember(cfg, "upload", buttonName)
getDownloadConfig(cfg, buttonName) == FirstMember(cfg, "download", buttonName)

\* getUploadConfig(buttonName) || getUploadConfig()
ResolveUpload(cfg, buttonName) ==
  IF getUploadConfig(cfg, buttonName) # NoMember THEN getUploadConfig(cfg, buttonName)
  ELSE getUploadConfig(cfg, "")
\* getDownloadConfig(buttonName) || getDownloadConfig()
ResolveDownload(cfg, buttonName) ==
  IF getDownloadConfig(cfg, buttonName) # NoMember THEN getDownloadConfig(cfg, buttonName)
  ELSE getDownloadConfig(cfg, "")

\* resolveDir with its two arguments exchanged
resolveDirSwapped(baseDir, dir) == IF isAbsolute(baseDir) THEN baseDir ELSE join(dir, baseDir)

\* resolveDir
resolveDir(baseDir, dir) == IF isAbsolute(dir) THEN dir ELSE join(baseDir, dir)

\* the directory an accepted upload is moved to: resolveDir(__dirname,
\* upload_directory) in upload_server.js, resolveDir(upload_directory,
\* UPLOAD_DIR) in upload_server.mjs
UploadDirOf(c, cfg, member) ==
  IF c = "js" THEN resolveDir(dirname, member.upload_directory)
  ELSE resolveDir(member.upload_directory, UPLOAD_DIR(cfg))

\* ------------------------------------------------------------------------
\* POST /api/upload
\* ------------------------------------------------------------------------
FileNames == {<<"a", DOT, "t">>, <<"a", DOT, "e">>}
Sizes == {1, 2}
ButtonNames == {"", "a", "b", "zz"}

\* multer.diskStorage: the received file is written to UPLOAD_DIR under its
\* original name before the handler runs; a request without a file part
\* writes nothing.  `prior` remembers the size of the file that was at that
\* path when the request arrived (0: none), `solo` that no other request was
\* waiting for the file system then.
UploadReceive(hasFile, name, size, buttonName) ==
  /\ pc = "listening"
  /\ copy # "legacy"
  /\ response.seq + Cardinality(pending) < MaxRequests
  /\ Cardinality(pending) < MaxInflight
  /\ LET path == join(UPLOAD_DIR(config), name) IN
       /\ files' = IF hasFile THEN WriteFile(files, path, size) ELSE files
       /\ pending' = pending \cup
            {[op |-> "upload", hasFile |-> hasFile, name |-> name, size |-> size,
              button_name |-> buttonName, path |-> path, names |-> {},
              prior |-> IF path \in DOMAIN files THEN files[path] ELSE 0,
              solo |-> pending = {}, traversal |-> FALSE]}
  /\ UNCHANGED <<startVars, busVars, hubVars, published, dirs, response>>

\* uploadCfg.allowed_extensions && !uploadCfg.allowed_extensions.includes(ext)
ExtensionRejected(uploadCfg, ext) ==
  uploadCfg.allowed_extensions.present /\ ext \notin uploadCfg.allowed_extensions.items

\* a size test that also rejects a file of exactly max_file_size bytes
SizeExceedsOrEqual(uploadCfg, size) ==
  uploadCfg.max_file_size # 0 /\ size >= uploadCfg.max_file_size

\* uploadCfg.max_file_size && req.file.size > uploadCfg.max_file_size
SizeExceeds(uploadCfg, size) ==
  uploadCfg.max_file_size # 0 /\ size > uploadCfg.max_file_size

UploadFailure(error) ==
  Resp(response.seq + 1, "upload", 200, FALSE, error, <<>>, <<>>, {})

\* the handler of POST /api/upload
UploadHandle(r) ==
  /\ r \in pending
  /\ r.op = "upload"
  /\ pending' = pending \ {r}
  /\ LET uploadCfg == ResolveUpload(config, r.button_name)
         ext == extname(r.name)
         uploadDir == UploadDirOf(copy, config, uploadCfg)
         destPath == join(uploadDir, r.name)
         moved == IF r.path # destPath
                    THEN WriteFile(RemoveFile(files, r.path), destPath, files[r.path])
                    ELSE files
     IN
     IF uploadCfg = NoMember THEN
       /\ response' = UploadFailure("No upload config found")
       /\ UNCHANGED <<files, dirs, published>>
     ELSE IF ~r.hasFile THEN
       /\ response' = UploadFailure("No file uploaded")
       /\ UNCHANGED <<files, dirs, published>>
     ELSE IF ExtensionRejected(uploadCfg, ext) \/ SizeExceeds(uploadCfg, r.size) THEN
       \* fs.unlinkSync(req.file.path) throws when the file is gone; the catch
       \* answers with the message of that error
       /\ files' = RemoveFile(files, r.path)
       /\ response' = UploadFailure(
            IF r.path \notin DOMAIN files THEN "ENOENT"
            ELSE IF ExtensionRejected(uploadCfg, ext) THEN "File type not allowed"
            ELSE "File size exceeds limit")
       /\ UNCHANGED <<dirs, published>>
     ELSE IF r.path \notin DOMAIN files /\ r.path # destPath THEN
       \* fs.renameSync throws: the received file is gone
       /\ dirs' = mkdirSync(dirs, uploadDir)
       /\ response' = UploadFailure("ENOENT")
       /\ UNCHANGED <<files, published>>
     ELSE
       /\ dirs' = mkdirSync(dirs, uploadDir)
       /\ files' = moved
       /\ published' = IF connected /\ copy = "js"
                         THEN published \cup {Publication("file/uploaded", r.name, r.size,
                                                          r.button_name, "", 0)}
                         ELSE published
       /\ response' = Resp(response.seq + 1, "upload", 200, TRUE, "", r.name, <<>>, {})
  /\ UNCHANGED <<startVars, busVars, hubVars>>

\* ------------------------------------------------------------------------
\* GET /api/files and DELETE /api/delete/:filename
\* ------------------------------------------------------------------------
\* fs.readdir(UPLOAD_DIR) is issued and reads the names of the directory
FilesRequest ==
  /\ pc = "listening"
  /\ response.seq + Cardinality(pending) < MaxRequests
  /\ Cardinality(pending) < MaxInflight
  /\ pending' = pending \cup
       {[op |-> "files", hasFile |-> FALSE, name |-> <<>>, size |-> 0, button_name |-> "",
         path |-> UPLOAD_DIR(config), names |-> ReaddirNames(files, dirs, UPLOAD_DIR(config)),
         prior |-> 0, solo |-> pending = {}, traversal |-> FALSE]}
  /\ UNCHANGED <<startVars, busVars, hubVars, published, fsVars, response>>

\* {filename, size} of fs.statSync for every name; the size of a directory is 0
FileList(fs, dir, names) ==
  {[filename |-> n, size |-> IF join(dir, n) \in DOMAIN fs THEN fs[join(dir, n)] ELSE 0] :
     n \in names}

\* the callback of fs.readdir: statSync of every name read; a name that is gone
\* makes statSync throw outside any try/catch, which ends the process
FilesCallback(r) ==
  /\ pc = "listening"
  /\ r \in pending
  /\ r.op = "files"
  /\ pending' = pending \ {r}
  /\ IF \A n \in r.names : existsSync(files, dirs, join(r.path, n))
       THEN /\ response' = Resp(response.seq + 1, "files", 200, TRUE, "", <<>>, r.path,
                                FileList(files, r.path, r.names))
            /\ pc' = pc
       ELSE /\ response' = response
            /\ pc' = "crashed"
  /\ UNCHANGED <<copy, config, exitError, busVars, hubVars, published, fsVars>>

\* the handler of DELETE: 404 when the file does not exist, else fs.unlink is
\* issued
DeleteRequest(name) ==
  /\ pc = "listening"
  /\ response.seq + Cardinality(pending) < MaxRequests
  /\ LET filePath == join(UPLOAD_DIR(config), name) IN
     IF ~existsSync(files, dirs, filePath)
       THEN /\ response' = Resp(response.seq + 1, "delete", 404, FALSE, "File not found",
                                <<>>, <<>>, {})
            /\ pending' = pending
       ELSE /\ Cardinality(pending) < MaxInflight
            /\ pending' = pending \cup
                 {[op |-> "delete", hasFile |-> FALSE, name |-> name, size |-> 0,
                   button_name |-> "", path |-> filePath, names |-> {}, prior |-> 0,
                   solo |-> pending = {}, traversal |-> FALSE]}
            /\ response' = response
  /\ UNCHANGED <<startVars, busVars, hubVars, published, fsVars>>

\* fs.unlink runs and its callback answers: 500 when the path is no file (any
\* more), else the file is removed
DeleteCallback(r) ==
  /\ pc = "listening"
  /\ r \in pending
  /\ r.op = "delete"
  /\ pending' = pending \ {r}
  /\ IF resolve(r.path) \in DOMAIN files
       THEN /\ files' = RemoveFile(files, resolve(r.path))
            /\ response' = Resp(response.seq + 1, "delete", 200, TRUE, "", <<>>, <<>>, {})
       ELSE /\ files' = files
            /\ response' = Resp(response.seq + 1, "delete", 500, FALSE, "Failed to delete file",
                                <<>>, <<>>, {})
  /\ UNCHANGED <<startVars, busVars, hubVars, published, dirs>>

\* ------------------------------------------------------------------------
\* The file specification: startup, broker connection, upload, list, delete
\* ------------------------------------------------------------------------
\* one upload policy on the default directory with a size limit; two policies,
\* one with its own directory; no upload policy; a default upload directory
\* taken from the 'files' tab
FileConfigs ==
  { [tabs |-> <<Tab("files", <<Upload("a", Uploads, List({ExtT}), 1)>>)>>],
    [tabs |-> <<Tab("files", <<Upload("a", DirUp, List({ExtT}), 0)>>),
                Tab("main", <<Upload("b", Uploads, List({ExtE}), 0)>>)>>],
    [tabs |-> <<Tab("files", <<>>)>>],
    [tabs |-> <<[Tab("files", <<Upload("a", DirUp, List({ExtT, ExtE}), 2)>>)
                   EXCEPT !.upload = DirUp]>>] }

InitFiles ==
  \E c \in {"js", "mjs"}, cfg \in FileConfigs :
    InitWith(c, cfg, {<<SLASH>>, dirname}, <<>>)

NextFiles ==
  \/ Load \/ Validate \/ MqttConnect \/ Listen
  \/ OnConnect
  \/ \E h \in BOOLEAN, n \in FileNames, z \in Sizes, b \in ButtonNames :
       UploadReceive(h, n, z, b)
  \/ \E r \in pending : UploadHandle(r)
  \/ FilesRequest
  \/ \E r \in pending : FilesCallback(r)
  \/ \E n \in FileNames : DeleteRequest(n)
  \/ \E r \in pending : DeleteCallback(r)

SpecFiles == InitFiles /\ [][NextFiles]_vars

\* ------------------------------------------------------------------------
\* POST /api/action
\* ------------------------------------------------------------------------
\* a lookup that takes the first member of any type whose button_name is the
\* action
FindButtonAnyType(cfg, action) ==
  LET ms == Flatten(cfg.tabs)
      hits == {i \in 1..Len(ms) : ms[i].type # "sensor" /\ ms[i].button_name = action}
  IN IF hits = {} THEN NoMember ELSE ms[CHOOSE i \in hits : \A j \in hits : i <= j]

\* the member the loop of the handler finds: the first member of type button
\* whose button_name is the action
FindButton(cfg, action) ==
  LET ms == Flatten(cfg.tabs)
      hits == {i \in 1..Len(ms) : ms[i].type = "button" /\ ms[i].button_name = action}
  IN IF hits = {} THEN NoMember ELSE ms[CHOOSE i \in hits : \A j \in hits : i <= j]

\* the answer of the action handler; button_name remembers the action of the
\* request
ActionResp(success, error, action) ==
  [Resp(response.seq + 1, "action", 200, success, error, <<>>, <<>>, {})
     EXCEPT !.button_name = action]

\* the value property of a request body that has none, and one that is null
NoValue == "undefined"
NullValue == "null"
\* a payload that is the value as it came
PayloadAsGiven(value) == value
\* value !== undefined && value !== null ? value : ''
Payload(value) == IF value \in {NoValue, NullValue} THEN "" ELSE value

\* the handler of POST /api/action.  mqttClient.reconnect() only starts a
\* connection attempt and mqttClient.publish() does not throw while the
\* connection is down, so the handler goes on to its success answer.
ActionRequest(action, value) ==
  /\ pc = "listening"
  /\ copy # "legacy"
  /\ response.seq + Cardinality(pending) < MaxRequests
  /\ LET buttonConfig == FindButton(config, action)
         topic == buttonConfig.publish_topic
     IN
     IF action = "" THEN
       /\ response' = ActionResp(FALSE, "No action provided in request", action)
       /\ UNCHANGED <<reconnects, published>>
     ELSE IF buttonConfig = NoMember THEN
       /\ response' = ActionResp(FALSE, "Action not found in config", action)
       /\ UNCHANGED <<reconnects, published>>
     ELSE IF topic = "" THEN
       /\ response' = ActionResp(FALSE, "No publish_topic found for action", action)
       /\ UNCHANGED <<reconnects, published>>
     ELSE
       /\ reconnects' = IF ~connected THEN reconnects + 1 ELSE reconnects
       /\ published' = published \cup
            {Publication(topic, <<>>, 0, action, Payload(value), response.seq + 1)}
       /\ response' = ActionResp(TRUE, "", action)
  /\ UNCHANGED <<startVars, connected, connectCount, subscribeRequests, pendingSubs,
                 brokerSubs, failedSubs, hubVars, fsVars, pending>>

\* ------------------------------------------------------------------------
\* The action specification: startup, broker connection, action requests
\* ------------------------------------------------------------------------
ActionIds == {"", "a", "b", "t1", "zz"}
Values == {NoValue, NullValue, "on"}

\* a button next to an upload and a download member; two buttons in two tabs,
\* the second named like the publish_topic of the first; no button
ActionConfigs ==
  { [tabs |-> <<Tab("main", <<Upload("b", Uploads, List({ExtT}), 0),
                              Button("a", "t1"),
                              Download("zz", DirRoot, List({ExtT}))>>)>>],
    [tabs |-> <<Tab("main", <<Button("a", "t1")>>),
                Tab("aux", <<Button("t1", "t2")>>)>>],
    [tabs |-> <<Tab("main", <<>>)>>] }

InitAction ==
  \E c \in {"js", "mjs"}, cfg \in ActionConfigs :
    InitWith(c, cfg, {<<SLASH>>, dirname}, <<>>)

NextAction ==
  \/ Load \/ Validate \/ MqttConnect \/ Listen
  \/ OnConnect \/ OnClose
  \/ \E a \in ActionIds, v \in Values : ActionRequest(a, v)

SpecAction == InitAction /\ [][NextAction]_vars

\* ------------------------------------------------------------------------
\* GET /api/browse
\* ------------------------------------------------------------------------
\* replace(/\\/g, '/')
ReplaceBackslashes(p) == [i \in 1..Len(p) |-> IF p[i] = BACKSLASH THEN SLASH ELSE p[i]]

RECURSIVE KeepFrom(_, _, _)
\* the characters of p at the positions i..Len(p) that are in keep
KeepFrom(p, i, keep) ==
  IF i > Len(p) THEN <<>>
  ELSE (IF i \in keep THEN <<p[i]>> ELSE <<>>) \o KeepFrom(p, i + 1, keep)

\* a replacement that strips nothing
StripNothing(p) == p

\* replace(/\.{2,}/g, ''): every run of two or more dots is removed
StripDotRuns(p) ==
  KeepFrom(p, 1, {i \in 1..Len(p) :
     ~(p[i] = DOT /\ ((i > 1 /\ p[i-1] = DOT) \/ (i < Len(p) /\ p[i+1] = DOT)))})

RECURSIVE StripDotPairs(_)
\* replace(/\.\./g, ''): pairs of dots are removed from left to right
StripDotPairs(p) ==
  IF Len(p) < 2 THEN p
  ELSE IF p[1] = DOT /\ p[2] = DOT THEN StripDotPairs(SubSeq(p, 3, Len(p)))
  ELSE <<p[1]>> \o StripDotPairs(Tail(p))

\* a sanitizer that only converts the separators
SanitizeSeparatorsOnly(c, path) == ReplaceBackslashes(path)

\* the sanitized relPath of a browse request
Sanitize(c, path) ==
  IF c = "js" THEN StripDotRuns(ReplaceBackslashes(path))
  ELSE StripDotPairs(ReplaceBackslashes(path))

\* the root directory of a browse request.  upload_server.js: the
\* root_directory of the resolved download member; upload_server.mjs: the
\* download.root_directory of the 'files' tab, else the 'uploads' directory
BrowseRoot(c, cfg, buttonName) ==
  IF c = "js" THEN resolveDir(dirname, ResolveDownload(cfg, buttonName).root_directory)
  ELSE LET found == {i \in 1..Len(cfg.tabs) : cfg.tabs[i].id = "files"}
           d == IF found = {} THEN <<>>
                ELSE cfg.tabs[CHOOSE i \in found : \A j \in found : i <= j].download
       IN IF d = <<>> THEN join(dirname, Uploads)
          ELSE IF isAbsolute(d) THEN d ELSE join(dirname, d)

\* the containment test: resolvedAbs.startsWith(resolvedRoot) in
\* upload_server.js, absPath.startsWith(rootDir) in upload_server.mjs
BrowseAllowed(c, rootDir, absPath) ==
  IF c = "js" THEN StartsWith(resolve(absPath), resolve(rootDir))
  ELSE StartsWith(absPath, rootDir)

BrowseResp(status, error, relPath, listed, entries, buttonName, traversal) ==
  [Resp(response.seq + 1, "browse", status, status = 200, error, relPath, listed, entries)
     EXCEPT !.button_name = buttonName, !.traversal = traversal]

\* the path parameter contains a parent-traversal segment
HasTraversal(path) == \E i \in 1..(Len(path) - 1) : path[i] = DOT /\ path[i+1] = DOT

\* the handler of GET /api/browse up to fs.readdir; one browse request waits
\* for the file system at a time
BrowseRequest(path, buttonName) ==
  /\ pc = "listening"
  /\ copy # "legacy"
  /\ response.seq + Cardinality(pending) < MaxRequests
  /\ \A r \in pending : r.op # "browse"
  /\ LET rootDir == BrowseRoot(copy, config, buttonName)
         relPath == Sanitize(copy, path)
         absPath == join(rootDir, relPath)
     IN
     IF copy = "js" /\ ResolveDownload(config, buttonName) = NoMember THEN
       /\ response' = BrowseResp(400, "No download config found", <<>>, <<>>, {},
                                 buttonName, HasTraversal(path))
       /\ pending' = pending
     ELSE IF ~BrowseAllowed(copy, rootDir, absPath) THEN
       /\ response' = BrowseResp(400, IF copy = "js"
                                        THEN "Access outside of root directory is not allowed"
                                        ELSE "Invalid path",
                                 <<>>, <<>>, {}, buttonName, HasTraversal(path))
       /\ pending' = pending
     ELSE
       /\ response' = response
       /\ pending' = pending \cup
            {[op |-> "browse", hasFile |-> FALSE, name |-> relPath, size |-> 0,
              button_name |-> buttonName, path |-> absPath, names |-> {}, prior |-> 0,
              solo |-> pending = {}, traversal |-> HasTraversal(path)]}
  /\ UNCHANGED <<startVars, busVars, hubVars, published, fsVars>>

\* the callback of fs.readdir(absPath): an error when the path is no directory,
\* else the names of its entries
BrowseCallback(r) ==
  /\ pc = "listening"
  /\ r \in pending
  /\ r.op = "browse"
  /\ pending' = pending \ {r}
  /\ response' =
       IF resolve(r.path) \notin dirs
         THEN BrowseResp(500, "Failed to list directory", <<>>, <<>>, {},
                         r.button_name, r.traversal)
         ELSE BrowseResp(200, "", r.name, resolve(r.path),
                         ReaddirNames(files, dirs, r.path), r.button_name, r.traversal)
  /\ UNCHANGED <<startVars, busVars, hubVars, published, fsVars>>

\* ------------------------------------------------------------------------
\* The browse specification: startup and browse requests on a fixed disk
\* ------------------------------------------------------------------------
PathChars == {DOT, SLASH, BACKSLASH, "a"}
Paths == UNION {[1..n -> PathChars] : n \in 0..MaxPathLen}

\* one download policy (root /s/a); two policies, the second with the absolute
\* root /s/aa; no download policy; a 'files' tab with a download root
BrowseConfigs ==
  { [tabs |-> <<Tab("files", <<Download("a", DirRoot, List({ExtT}))>>)>>],
    [tabs |-> <<Tab("files", <<Download("a", DirRoot, List({ExtT})),
                               Download("b", dirname \o <<SLASH, "a", "a">>, List({ExtT}))>>)>>],
    [tabs |-> <<Tab("files", <<>>)>>],
    [tabs |-> <<[Tab("files", <<Download("a", DirRoot, List({ExtT}))>>)
                   EXCEPT !.download = DirRoot]>>] }

\* the directories /s/a (with /s/a/a and /s/a/aa below it), its sibling /s/aa,
\* and one file in each
BrowseDirs ==
  { <<SLASH>>, dirname, dirname \o <<SLASH, "a">>, dirname \o <<SLASH, "a", SLASH, "a">>,
    dirname \o <<SLASH, "a", SLASH, "a", "a">>, dirname \o <<SLASH, "a", "a">> }
BrowseFiles ==
  WriteFile(WriteFile(WriteFile(WriteFile(<<>>,
    dirname \o <<SLASH, "a", SLASH, "f">>, 1),
    dirname \o <<SLASH, "a", SLASH, "a", SLASH, "g">>, 1),
    dirname \o <<SLASH, "a", "a", SLASH, "h">>, 1),
    dirname \o <<SLASH, "k">>, 1)

InitBrowse ==
  \E c \in {"js", "mjs"}, cfg \in BrowseConfigs :
    InitWith(c, cfg, BrowseDirs, BrowseFiles)

\* the client has read the answer to its request and holds none (the test
\* client awaits each answer before it sends the next request)
ClientReads ==
  /\ response.kind # "none"
  /\ response' = NoResponse
  /\ UNCHANGED <<startVars, busVars, hubVars, published, fsVars, pending>>

NextBrowse ==
  \/ Load \/ Validate \/ MqttConnect \/ Listen
  \/ /\ response.kind = "none" /\ pending = {}
     /\ \E path \in Paths, b \in {"", "b", "zz"} : BrowseRequest(path, b)
  \/ \E r \in pending : BrowseCallback(r)
  \/ ClientReads

SpecBrowse == InitBrowse /\ [][NextBrowse]_vars

\* ------------------------------------------------------------------------
\* POST /api/download
\* ------------------------------------------------------------------------
\* path.relative of two absolute paths: '..' for every segment of `from` below
\* the common directory, then the rest of `to`
relative(from, to) ==
  LET f == SplitOn(resolve(from), SLASH)
      t == SplitOn(resolve(to), SLASH)
      m == IF Len(f) <= Len(t) THEN Len(f) ELSE Len(t)
      n == CHOOSE k \in 0..m :
             /\ SubSeq(f, 1, k) = SubSeq(t, 1, k)
             /\ k = m \/ f[k+1] # t[k+1]
      ups == [i \in 1..(Len(f) - n) |-> <<DOT, DOT>>]
  IN JoinWith(ups \o SubSeq(t, n + 1, Len(t)), SLASH)

\* the root directory of a download: resolveDir(__dirname, root_directory) in
\* upload_server.js, resolveDir(root_directory, UPLOAD_DIR) in upload_server.mjs
DownloadRootOf(c, cfg, member) ==
  IF c = "js" THEN resolveDir(dirname, member.root_directory)
  ELSE resolveDir(member.root_directory, UPLOAD_DIR(cfg))

\* a download handler that looks for the file before it looks at its extension
DownloadErrorExistenceFirst(c, downloadCfg, filename, exists) ==
  IF downloadCfg = NoMember THEN "No download config found"
  ELSE IF filename = <<>>
    THEN IF c = "js" THEN "No filename provided"
         ELSE "No filename provided in download message"
  ELSE IF ~exists THEN "File not found"
  ELSE IF ExtensionRejected(downloadCfg, extname(filename)) THEN "File type not allowed"
  ELSE ""

\* the errors thrown in the try block of the download handler, in the order of
\* the code; "" when none is thrown
DownloadError(c, downloadCfg, filename, exists) ==
  IF downloadCfg = NoMember THEN "No download config found"
  ELSE IF filename = <<>>
    THEN IF c = "js" THEN "No filename provided"
         ELSE "No filename provided in download message"
  ELSE IF ExtensionRejected(downloadCfg, extname(filename)) THEN "File type not allowed"
  ELSE IF ~exists THEN "File not found"
  ELSE ""

\* the answer to a download request: the JSON body, or for res.download the
\* name offered (filename) and the path of the file that is sent (listed);
\* requested and button_name remember the request
DownloadResp(status, success, error, filename, served, requested, buttonName) ==
  [seq |-> response.seq + 1, kind |-> "download", status |-> status, success |-> success,
   error |-> error, filename |-> filename, listed |-> served, entries |-> {},
   button_name |-> buttonName, traversal |-> HasTraversal(requested),
   requested |-> requested]

\* the handler of POST /api/download
DownloadRequest(filename, buttonName) ==
  /\ pc = "listening"
  /\ copy # "legacy"
  /\ response.seq + Cardinality(pending) < MaxRequests
  /\ LET downloadCfg == ResolveDownload(config, buttonName)
         rootDir == DownloadRootOf(copy, config, downloadCfg)
         filePath == join(rootDir, filename)
         error == DownloadError(copy, downloadCfg, filename,
                                existsSync(files, dirs, filePath))
     IN
     IF error # "" THEN
       /\ response' = DownloadResp(IF copy = "js" THEN 400 ELSE 200, FALSE, error,
                                   <<>>, <<>>, filename, buttonName)
       /\ published' = published
     ELSE IF copy = "mjs" THEN
       /\ response' = DownloadResp(200, TRUE, "", filename, <<>>, filename, buttonName)
       /\ published' = published
     ELSE
       /\ published' =
            IF connected
              THEN published \cup
                     {Publication("file/downloaded", relative(rootDir, filePath),
                                  IF resolve(filePath) \in DOMAIN files
                                    THEN files[resolve(filePath)] ELSE 0,
                                  buttonName, "", 0)}
              ELSE published
       \* res.download: the file is sent; a directory is answered 404
       /\ response' =
            IF resolve(filePath) \in DOMAIN files
              THEN DownloadResp(200, TRUE, "", basename(filename), resolve(filePath),
                                filename, buttonName)
              ELSE DownloadResp(404, FALSE, "Not Found", <<>>, <<>>, filename, buttonName)
  /\ UNCHANGED <<startVars, busVars, hubVars, fsVars, pending>>

\* ------------------------------------------------------------------------
\* The download specification: startup, broker connection, download requests
\* and delete requests whose names are paths
\* ------------------------------------------------------------------------
NameAT == <<"a", DOT, "t">>
NameAE == <<"a", DOT, "e">>
NameUpST == <<DOT, DOT, SLASH, "s", DOT, "t">>
\* no name, an allowed and a disallowed file that exist, an allowed and a
\* disallowed file that do not, a name that leaves the root, an absolute name
DownloadNames ==
  { <<>>, NameAT, NameAE, <<"b", DOT, "t">>, <<"b", DOT, "e">>, NameUpST,
    <<SLASH>> \o NameAT }

\* an entry of the directory, a missing name, a name that leaves the
\* directory, a name below another directory
DeleteNames ==
  { NameAT, <<"b", DOT, "t">>, NameUpST, <<DOT, DOT, SLASH, "a", SLASH>> \o NameAE }

\* one download policy (root /s/a); two policies with different roots and
\* allow-lists; no download policy
DownloadConfigs ==
  { [tabs |-> <<Tab("files", <<Download("b", DirRoot, List({ExtT}))>>)>>],
    [tabs |-> <<Tab("files", <<Download("a", DirRoot, List({ExtT})),
                               Download("b", DirUp, List({ExtE}))>>)>>],
    [tabs |-> <<Tab("files", <<>>)>>] }

\* the directories /s/a, /s/up and /s/uploads with the files a.t and a.e in
\* each of them, and the file /s/s.t next to them
DownloadDirs ==
  { <<SLASH>>, dirname, join(dirname, DirRoot), join(dirname, DirUp), join(dirname, Uploads) }
DownloadFiles ==
  [p \in {join(join(dirname, d), n) : d \in {DirRoot, DirUp, Uploads}, n \in {NameAT, NameAE}}
         \cup {join(dirname, <<"s", DOT, "t">>)} |-> IF basename(p) = NameAE THEN 2 ELSE 1]

InitDownload ==
  \E c \in {"js", "mjs"}, cfg \in DownloadConfigs :
    InitWith(c, cfg, DownloadDirs, DownloadFiles)

NextDownload ==
  \/ Load \/ Validate \/ MqttConnect \/ Listen
  \/ OnConnect
  \/ \E n \in DownloadNames, b \in ButtonNames : DownloadRequest(n, b)
  \/ \E n \in DeleteNames : DeleteRequest(n)
  \/ \E r \in pending : DeleteCallback(r)

SpecDownload == InitDownload /\ [][NextDownload]_vars

\* ------------------------------------------------------------------------
\* Claims about startup validation (checked under SpecStartup)
\* ------------------------------------------------------------------------
AllMembers == Flatten(config.tabs)

\* the tab that holds the i-th member of the flattened configuration
RECURSIVE TabOf(_, _, _)
TabOf(tabs, i, t) ==
  IF i <= Len(Head(tabs).members) THEN t
  ELSE TabOf(Tail(tabs), i - Len(Head(tabs).members), t + 1)

\* positions of members whose non-empty button_name already occurs on a
\* button/upload/download member before them
Repeats ==
  {j \in 1..Len(AllMembers) :
     /\ HasButtonName(AllMembers[j])
     /\ \E i \in 1..(j-1) : /\ HasButtonName(AllMembers[i])
                            /\ AllMembers[i].button_name = AllMembers[j].button_name}
\* positions of members that lack a required field
Incomplete == {i \in 1..Len(AllMembers) : ~RequiredFields(AllMembers[i]).ok}
Least(S) == CHOOSE i \in S : \A j \in S : i <= j

\* C1 as stated: whenever two button/upload/download members share a
\* button_name, the process never gets past validation and, once validation has
\* run, it has exited with an error that names the shared button_name.
C1_AsStated ==
  \A j \in Repeats :
     /\ pc \notin {"validated", "broker", "listening"}
     /\ pc = "exited" => exitError.name = AllMembers[j].button_name

\* C1 amended: whenever two button/upload/download members share a non-empty
\* button_name, the process never gets past validation; it exits with the
\* duplicate error naming the first repeated button_name in iteration order,
\* unless a member before that repetition lacks a required field, in which case
\* it exits with that member's missing-field error.
C1_DuplicateRejected ==
  Repeats # {} =>
     /\ pc \notin {"validated", "broker", "listening"}
     /\ pc = "exited" =>
          IF \E i \in Incomplete : i < Least(Repeats)
            THEN exitError = RequiredFields(AllMembers[Least(Incomplete)])
            ELSE exitError = Error("duplicate button_name",
                                   AllMembers[Least(Repeats)].button_name)

\* a configuration whose two colliding members are of different types and in
\* different tabs has been rejected with the duplicate error
C1_Witness ==
  /\ pc = "exited"
  /\ exitError.error = "duplicate button_name"
  /\ \E i, j \in 1..Len(AllMembers) :
       /\ i < j
       /\ j \in Repeats
       /\ AllMembers[i].button_name = AllMembers[j].button_name
       /\ AllMembers[i].type # AllMembers[j].type
       /\ TabOf(config.tabs, i, 1) # TabOf(config.tabs, j, 1)

\* an upload member without upload_directory or without allowed_extensions
LacksUploadField(member) ==
  /\ member.type = "upload"
  /\ member.upload_directory = <<>> \/ ~member.allowed_extensions.present

\* C2: with an upload member that lacks upload_directory or allowed_extensions,
\* validation fails, and in no state is the broker connection opened or the
\* server listening.
C2_UploadFieldsRequired ==
  (\E i \in 1..Len(AllMembers) : LacksUploadField(AllMembers[i])) =>
     /\ ~BrokerOpened
     /\ ~Serving
     /\ pc \in {"start", "loaded", "exited"}
     /\ pc = "exited" => ~exitError.ok

\* the process has exited on an upload member that has its upload_directory
\* but no allowed_extensions
C2_Witness ==
  /\ pc = "exited"
  /\ exitError.error = "missing allowed_extensions"
  /\ \E i \in 1..Len(AllMembers) :
       /\ AllMembers[i].type = "upload"
       /\ AllMembers[i].upload_directory # <<>>
       /\ ~AllMembers[i].allowed_extensions.present

\* C3 as stated: while the server is serving, every upload member has a
\* non-empty upload_directory and a non-empty allowed_extensions list, every
\* download member a non-empty root_directory and a non-empty
\* allowed_extensions list, every button member a non-empty publish_topic.
C3_AsStated ==
  Serving =>
    \A i \in 1..Len(AllMembers) :
      LET m == AllMembers[i] IN
        /\ m.type = "upload" =>
             /\ m.upload_directory # <<>>
             /\ m.allowed_extensions.present /\ m.allowed_extensions.items # {}
        /\ m.type = "download" =>
             /\ m.root_directory # <<>>
             /\ m.allowed_extensions.present /\ m.allowed_extensions.items # {}
        /\ m.type = "button" => m.publish_topic # ""

\* C19 as stated: when a configuration has both a button_name collision and a
\* member that lacks a required field, validation fails with the duplicate
\* error, wherever the members are.
C19_AsStated ==
  (Repeats # {} /\ Incomplete # {} /\ pc = "exited")
    => exitError.error = "duplicate button_name"

\* C19 amended: validation makes one pass over the members and checks each
\* member first for a repeated button_name and then for its required fields,
\* so with both defects the configuration is rejected with the error of the
\* first defective member in iteration order: the duplicate error when the
\* first repeated member comes before the first incomplete member or is that
\* member, else the missing-field error of the first incomplete member.
C19_FirstDefectWins ==
  (Repeats # {} /\ Incomplete # {}) =>
     /\ pc \notin {"validated", "broker", "listening"}
     /\ pc = "exited" =>
          IF Least(Repeats) <= Least(Incomplete)
            THEN exitError = Error("duplicate button_name",
                                   AllMembers[Least(Repeats)].button_name)
            ELSE exitError = RequiredFields(AllMembers[Least(Incomplete)])

\* a configuration whose first repeated member is itself incomplete has been
\* rejected with the duplicate error
C19_Witness ==
  /\ pc = "exited"
  /\ Repeats # {} /\ Incomplete # {}
  /\ Least(Repeats) = Least(Incomplete)
  /\ exitError.error = "duplicate button_name"

\* ------------------------------------------------------------------------
\* Claims about the bus (checked under SpecBus)
\* ------------------------------------------------------------------------
\* C4 as stated: a bus message that arrives on a topic that is not the topic
\* of a configured sensor member leaves the sensor cache unchanged and sends
\* no event to any client.
C4_AsStated ==
  [][\A t \in Topics, b \in Bodies :
       (OnMessage(t, b) /\ t \notin SensorTopicSet(config))
          => UNCHANGED <<latestSensorData, clients>>]_vars

\* C5 as stated: on every connect and reconnect the topic filters passed to
\* subscribe are exactly the topics of the configured sensor members (no
\* topic missing, no extra topic, no wildcard), the same set every time.
C5_AsStated ==
  connectCount > 0 => subscribeRequests = SensorTopicSet(config)

\* C6 as stated: whenever the bus connection is up, the set of topics
\* subscribed at the broker equals the set of configured sensor topics, also
\* while subscribe requests are pending and after one has failed.
C6_AsStated ==
  (connected /\ copy # "legacy") => brokerSubs = SensorTopicSet(config)

\* C6 amended: whenever the bus connection is up (first copy of
\* upload_server.js, upload_server.mjs), the topics subscribed at the broker
\* are a subset of the configured sensor topics; every configured topic is
\* subscribed, pending or failed; and the two sets are equal once every
\* subscribe request of the current connection has been granted.
C6_SubscribedSubset ==
  (connected /\ copy # "legacy") =>
     /\ brokerSubs \subseteq SensorTopicSet(config)
     /\ brokerSubs \cup pendingSubs \cup failedSubs = SensorTopicSet(config)
     /\ (pendingSubs = {} /\ failedSubs = {}) => brokerSubs = SensorTopicSet(config)

\* after a reconnect, one subscribe request has failed and another one was
\* granted
C6_Witness ==
  /\ connected
  /\ copy = "js"
  /\ connectCount = 2
  /\ failedSubs # {}
  /\ brokerSubs # {}
  /\ pendingSubs = {}

\* ------------------------------------------------------------------------
\* Claims about uploads (checked under SpecFiles)
\* ------------------------------------------------------------------------
\* upload request r is handled with no other request in flight since its
\* arrival, and the received file is on disk as multer wrote it
Undisturbed(r) ==
  /\ r.hasFile /\ r.solo /\ pending = {r}
  /\ r.path \in DOMAIN files /\ files[r.path] = r.size

\* C7 as stated: when an upload is rejected because its extension is not in
\* the allow-list of the resolved policy, the files on disk (names and sizes,
\* in the default upload directory and in the policy's directory) are the
\* same after the response as they were when the request arrived, also when a
\* file of the same name was there before.
C7_AsStated ==
  [][\A r \in pending :
       (UploadHandle(r) /\ Undisturbed(r) /\ response'.error = "File type not allowed")
         => /\ ~response'.success
            /\ IF r.prior = 0 THEN r.path \notin DOMAIN files'
               ELSE r.path \in DOMAIN files' /\ files'[r.path] = r.prior
            /\ DOMAIN files' \ {r.path} = DOMAIN files \ {r.path}
            /\ \A q \in DOMAIN files \ {r.path} : files'[q] = files[q]]_vars

\* the entries GET /api/files returns when it runs on the file system fs
Listing(fs, ds) ==
  FileList(fs, UPLOAD_DIR(config), ReaddirNames(fs, ds, UPLOAD_DIR(config)))

\* C8 as stated: after an upload was answered with success:true, GET
\* /api/files returns an entry with the file's name and the uploaded byte
\* count, whatever upload policy the request resolved to.
C8_AsStated ==
  [][\A r \in pending :
       (UploadHandle(r) /\ Undisturbed(r) /\ response'.success)
         => [filename |-> r.name, size |-> r.size] \in Listing(files', dirs')]_vars

\* the upload_directory of the policy that request r resolves to is the
\* default upload directory
TargetsDefaultDir(r) ==
  LET d == ResolveUpload(config, r.button_name).upload_directory
      target == IF isAbsolute(d) THEN d ELSE join(dirname, d)
  IN resolve(target) = resolve(UPLOAD_DIR(config))

\* C8 amended: after an upload was answered with success:true (and no other
\* request wrote or removed the received file meanwhile), GET /api/files
\* returns an entry with the file's name and the uploaded byte count, for
\* every upload policy whose upload_directory is the default upload directory
\* (in upload_server.mjs for every policy: there the file is never moved).
C8_RoundTrip ==
  [][\A r \in pending :
       (UploadHandle(r) /\ Undisturbed(r) /\ response'.success
          /\ (copy = "mjs" \/ TargetsDefaultDir(r)))
         => [filename |-> r.name, size |-> r.size] \in Listing(files', dirs')]_vars

\* GET /api/files has answered with the entry of a file of 2 bytes that was
\* uploaded under the second of two upload policies
C8_Witness ==
  /\ response.kind = "files"
  /\ copy = "js"
  /\ getUploadConfig(config, "b") # NoMember
  /\ [filename |-> <<"a", DOT, "e">>, size |-> 2] \in response.entries

\* ------------------------------------------------------------------------
\* Claims about GET /api/browse (SpecBrowse)
\* ------------------------------------------------------------------------
\* directory dir is root or lies below it
Within(dir, root) == dir = root \/ StartsWith(dir, root \o <<SLASH>>)

\* the resolved root directory of the browse request that was answered
AnsweredRoot == resolve(BrowseRoot(copy, config, response.button_name))

\* C9 as stated: every browse request whose path parameter contains '..' (and
\* that resolves to a root directory) is answered with the access-denied
\* error, never with a listing and never with another error.
C9_AsStated ==
  (response.kind = "browse" /\ response.traversal
     /\ response.error # "No download config found")
    => /\ response.status = 400
       /\ response.error \in {"Access outside of root directory is not allowed",
                              "Invalid path"}

\* C9 amended: a browse request whose path parameter contains '..' has the
\* dots stripped from the path and is answered as the request for the
\* remaining path is: with the listing of the root directory or of a
\* directory below it, or with 'Failed to list directory' when the remaining
\* path names no directory (or with 'No download config found'); it is never
\* answered with the access-denied error.
C9_TraversalStripped ==
  (response.kind = "browse" /\ response.traversal)
    => \/ response.status = 400 /\ response.error = "No download config found"
       \/ response.status = 500 /\ response.error = "Failed to list directory"
       \/ /\ response.status = 200
          /\ Within(response.listed, AnsweredRoot)
          /\ ~HasTraversal(response.filename)

\* a request for a path with '..' was answered with the listing of the root
\* directory itself
C9_Witness ==
  /\ response.kind = "browse"
  /\ response.traversal
  /\ response.status = 200
  /\ response.listed = AnsweredRoot
  /\ response.entries # {}

MembersOfType(type) ==
  {i \in 1..Len(Flatten(config.tabs)) : Flatten(config.tabs)[i].type = type}

\* C11 as stated: an upload request that carries no button_name is served
\* under a policy only when exactly one upload policy is configured; with
\* several policies (ambiguity) and with none it is rejected.
C11_AsStated ==
  [][\A r \in pending :
       (UploadHandle(r) /\ r.button_name = "" /\ r.hasFile)
         => (response'.success => Cardinality(MembersOfType("upload")) = 1)]_vars

\* ------------------------------------------------------------------------
\* Claims about POST /api/action (SpecAction)
\* ------------------------------------------------------------------------
\* the button_names of the configured members of type button
ButtonActions == {Flatten(config.tabs)[i].button_name : i \in MembersOfType("button")}

C13_AsStated ==
  [][\A a \in ActionIds, v \in Values :
       (ActionRequest(a, v) /\ a \in ButtonActions /\ ~connected)
         => /\ reconnects' = reconnects + 1
            /\ ~connected' => ~response'.success]_vars

\* ------------------------------------------------------------------------
\* Claims about the message handler and the broadcast hub (SpecBus)
\* ------------------------------------------------------------------------
\* the message handler acts on a message with this topic
Handled(t) ==
  IF copy = "legacy" THEN Len(t) >= 2 /\ t[1] = "sensor"
  ELSE t \in SensorTopicSet(config)

\* the last event client c has received after the step
LastEvent(c) == clients'[c].inbox[Len(clients'[c].inbox)]

\* C14: a message on a configured sensor topic whose decoder throws is not
\* dropped: the cache entry of the sensor becomes a reading that carries the
\* bytes of the message (base64) and the error text, every open client is
\* sent one sensor_update event with that reading, and the handler stays
\* connected and subscribed for later messages.
C14_DecodeFailureKept ==
  [][\A t \in Topics, b \in Bodies :
       (/\ OnMessage(t, b)
        /\ copy # "legacy"
        /\ t \in SensorTopicSet(config)
        /\ DecoderFor(t) # "null" /\ ~Decode(DecoderFor(t), b).ok)
         => /\ SensorKey(t) \in DOMAIN latestSensorData'
            /\ latestSensorData'[SensorKey(t)].object.raw = base64(b)
            /\ latestSensorData'[SensorKey(t)].object.error = Decode(DecoderFor(t), b).error
            /\ latestSensorData'[SensorKey(t)].object.error # ""
            /\ \A c \in ClientIds :
                 clients[c].readyState = "open"
                   => /\ Len(clients'[c].inbox) = Len(clients[c].inbox) + 1
                      /\ LastEvent(c).type = "sensor_update"
                      /\ LastEvent(c).data = latestSensorData'[SensorKey(t)]
            /\ pc' = "listening" /\ connected' /\ brokerSubs' = brokerSubs]_vars

\* a second message was handled after one whose decoder failed, or the failed
\* one was the second: the cache holds a reading with the error text and an
\* open client has received it
C14_Witness ==
  /\ copy = "js"
  /\ msgCount = MaxMessages
  /\ \E k \in DOMAIN latestSensorData, c \in ClientIds :
       /\ latestSensorData[k].object.error = "decode error"
       /\ latestSensorData[k].object.raw = base64("junk")
       /\ clients[c].readyState = "open"
       /\ \E i \in 2..Len(clients[c].inbox) :
            /\ clients[c].inbox[i].type = "sensor_update"
            /\ clients[c].inbox[i].data = latestSensorData[k]

\* C15: every real-time client has received exactly one init event, as its
\* first event, and when the connection is accepted the sensors of that event
\* are the whole sensor cache of that moment.
C15_InitSnapshot ==
  /\ [](\A c \in ClientIds :
          clients[c].readyState # "none"
            => /\ Len(clients[c].inbox) >= 1
               /\ clients[c].inbox[1].type = "init"
               /\ \A i \in 2..Len(clients[c].inbox) : clients[c].inbox[i].type # "init")
  /\ [][\A c \in ClientIds :
          WsConnection(c)
            => /\ Len(clients'[c].inbox) = 1
               /\ clients'[c].inbox[1].type = "init"
               /\ clients'[c].inbox[1].sensors = latestSensorData]_vars

\* a client that connected after a cache update received the cached reading
\* in its init event and then an update
C15_Witness ==
  \E c \in ClientIds :
    /\ Len(clients[c].inbox) = 2
    /\ clients[c].inbox[1].type = "init"
    /\ clients[c].inbox[1].sensors # <<>>
    /\ clients[c].inbox[2].type = "sensor_update"

\* C16: a message that updates the sensor cache sends exactly one
\* sensor_update event to every client whose readyState is OPEN and nothing to
\* a client that is closing or gone; the cache is updated whatever the states
\* of the clients are.
C16_BroadcastToOpen ==
  [][\A t \in Topics, b \in Bodies :
       (OnMessage(t, b) /\ Handled(t))
         => /\ \A c \in ClientIds :
                 IF clients[c].readyState = "open"
                   THEN /\ Len(clients'[c].inbox) = Len(clients[c].inbox) + 1
                        /\ SubSeq(clients'[c].inbox, 1, Len(clients[c].inbox)) = clients[c].inbox
                        /\ LastEvent(c).type = "sensor_update"
                        /\ clients'[c].readyState = "open"
                   ELSE clients'[c] = clients[c]
            /\ \E k \in DOMAIN latestSensorData' :
                 \A c \in ClientIds :
                   clients[c].readyState = "open"
                     => (IF copy = "legacy" THEN LastEvent(c).data.object
                         ELSE LastEvent(c).data) = latestSensorData'[k]
            /\ latestSensorData' # <<>>]_vars

\* an update reached the open client while the other client was closing and
\* received nothing
C16_Witness ==
  /\ clients[1].readyState = "open"
  /\ clients[2].readyState = "closing"
  /\ Len(clients[1].inbox) = 2
  /\ clients[1].inbox[2].type = "sensor_update"
  /\ clients[2].inbox = <<InitEvent(<<>>)>>
  /\ latestSensorData # <<>>

\* C18 as stated: the reading of a message on a configured sensor topic, of
\* one, two, three or more segments, is stored in the sensor cache under the
\* last segment of the topic, replacing the reading stored under that key.
C18_AsStated ==
  [][\A t \in Topics, b \in Bodies :
       (OnMessage(t, b) /\ copy # "legacy" /\ t \in SensorTopicSet(config))
         => /\ DOMAIN latestSensorData' = DOMAIN latestSensorData \cup {<<t[Len(t)]>>}
            /\ \A k \in DOMAIN latestSensorData \ {<<t[Len(t)]>>} :
                 latestSensorData'[k] = latestSensorData[k]]_vars

\* ------------------------------------------------------------------------
\* Claims about interleaved requests (SpecFiles)
\* ------------------------------------------------------------------------
\* C17 as stated: under every interleaving of the requests no handler raises
\* an exception that is not caught and ends the process, also when the
\* directory read of GET /api/files overlaps the removal of a listed file.
C17_AsStated == pc # "crashed"

\* ------------------------------------------------------------------------
\* Claims about the upload policy (SpecFiles)
\* ------------------------------------------------------------------------
\* the part of a file name from its last dot on
DotSuffix(name) ==
  LET dots == {i \in 1..Len(name) : name[i] = DOT} IN
  IF dots = {} THEN <<>>
  ELSE SubSeq(name, CHOOSE i \in dots : \A j \in dots : j <= i, Len(name))

\* C20: an upload with a file under a resolved policy is accepted if and only
\* if the extension of the file (with its dot) is in the allow-list of the
\* policy and no max_file_size is declared or the received size is at most
\* max_file_size; a wrong extension is reported as the extension error also
\* when the size is too large, a too large size alone as the size error.
C20_AcceptedIffPolicy ==
  [][\A r \in pending :
       (UploadHandle(r) /\ Undisturbed(r) /\ ResolveUpload(config, r.button_name) # NoMember)
         => LET policy == ResolveUpload(config, r.button_name)
                extOk == DotSuffix(r.name) \in policy.allowed_extensions.items
                sizeOk == policy.max_file_size = 0 \/ r.size <= policy.max_file_size
            IN /\ response'.success <=> (extOk /\ sizeOk)
               /\ ~extOk => response'.error = "File type not allowed"
               /\ (extOk /\ ~sizeOk) => response'.error = "File size exceeds limit"]_vars

\* an upload of exactly max_file_size bytes (2) with an allowed extension was
\* accepted
C20_Witness ==
  /\ response.kind = "upload"
  /\ response.success
  /\ pending = {}
  /\ \E i \in MembersOfType("upload") :
       /\ Flatten(config.tabs)[i].max_file_size = 2
       /\ \E q \in DOMAIN files : files[q] = 2 /\ basename(q) = response.filename

\* ------------------------------------------------------------------------
\* Claims about download and delete requests (checked under SpecDownload)
\* ------------------------------------------------------------------------
\* the path a download request reads: the name joined to the root of the policy
\* the request resolves to
DownloadTarget(filename, buttonName) ==
  join(DownloadRootOf(copy, config, ResolveDownload(config, buttonName)), filename)

\* C21: a download request for a name whose extension is outside the allow-list
\* of the resolved policy is answered with the 'File type not allowed'
\* rejection, the same answer whatever the file system holds, and nothing is
\* published; a request with an allowed extension for a path that does not
\* exist is answered success:false with 'File not found'.
C21_ExtensionBeforeExistence ==
  [][\A n \in DownloadNames \ {<<>>}, b \in ButtonNames :
       (DownloadRequest(n, b) /\ ResolveDownload(config, b) # NoMember)
         => /\ ExtensionRejected(ResolveDownload(config, b), extname(n))
                 => /\ response' = DownloadResp(IF copy = "js" THEN 400 ELSE 200, FALSE,
                                                "File type not allowed", <<>>, <<>>, n, b)
                    /\ published' = published
            /\ (/\ ~ExtensionRejected(ResolveDownload(config, b), extname(n))
                /\ ~existsSync(files, dirs, DownloadTarget(n, b)))
                 => /\ ~response'.success
                    /\ response'.error = "File not found"
                    /\ response'.filename = <<>>
                    /\ response'.listed = <<>>
                    /\ published' = published]_vars

\* a request for a file that exists and has a disallowed extension was rejected
C21_Witness ==
  /\ response.kind = "download"
  /\ response.error = "File type not allowed"
  /\ response.requested = NameAE
  /\ resolve(DownloadTarget(response.requested, response.button_name)) \in DOMAIN files

\* C25 as stated: a download request whose button_name is the button_name of
\* no download member is rejected.
C25_AsStated ==
  [][\A n \in DownloadNames, b \in ButtonNames \ {""} :
       (DownloadRequest(n, b) /\ getDownloadConfig(config, b) = NoMember)
         => ~response'.success]_vars

\* C29 as stated: the file a successful download request is answered with is
\* located inside the root directory of the policy the request resolves to.
C29_AsStated ==
  (response.kind = "download" /\ response.success)
    => StartsWith(resolve(DownloadTarget(response.requested, response.button_name)),
                  resolve(DownloadRootOf(copy, config,
                                         ResolveDownload(config, response.button_name)))
                    \o <<SLASH>>)

\* C30 as stated: a file that a step removes is a direct entry of the default
\* upload directory, and a delete request for a name that does not exist there
\* is answered 404 with the file system unchanged.
C30_AsStated ==
  [][/\ \A p \in DOMAIN files \ DOMAIN files' : Parent(p) = resolve(UPLOAD_DIR(config))
     /\ \A n \in DeleteNames :
          (DeleteRequest(n) /\ ~existsSync(files, dirs, join(UPLOAD_DIR(config), n)))
            => response'.status = 404 /\ files' = files /\ dirs' = dirs]_vars

\* ------------------------------------------------------------------------
\* Claims about action dispatch, continued (checked under SpecAction)
\* ------------------------------------------------------------------------
\* the publish_topic values of the button members of the configuration
PublishTopics ==
  {Flatten(config.tabs)[i].publish_topic :
     i \in {j \in 1..Len(Flatten(config.tabs)) : Flatten(config.tabs)[j].type = "button"}}

\* C22: an action request that is answered success:true has made exactly one
\* publish call, to the publish_topic of the first button member whose
\* button_name is the action, with the value of the request as payload, or the
\* empty payload when the request has no value or the value null; a request
\* that is not answered success:true publishes nothing, and every publish of
\* an action goes to the publish_topic of a configured button.
C22_OnePublishPerAction ==
  /\ [][\A a \in ActionIds, v \in Values :
          ActionRequest(a, v) =>
            IF response'.success
              THEN /\ FindButton(config, a) # NoMember
                   /\ \E m \in published' \ published :
                        /\ published' = published \cup {m}
                        /\ m.topic = FindButton(config, a).publish_topic
                        /\ m.payload = (IF v \in {NoValue, NullValue} THEN "" ELSE v)
                        /\ m.request = response'.seq
              ELSE published' = published]_vars
  /\ [](\A m \in published : m.request # 0 => m.topic \in PublishTopics)

\* a request without a value was answered success:true and its publish carries
\* the empty payload
C22_Witness ==
  /\ response.kind = "action"
  /\ response.success
  /\ \E m \in published : m.request = response.seq /\ m.payload = "" /\ m.topic = "t1"

\* ------------------------------------------------------------------------
\* Claims about the event stream of a client (checked under SpecBus)
\* ------------------------------------------------------------------------
\* C23: the events of a client are in the order in which they were produced:
\* the first one is the init event and all later ones are sensor_update
\* events; while the client is connected no step changes or reorders what it
\* has received, a handled bus message puts its event, the one that carries
\* the cache update of this message, after all earlier ones, and in
\* upload_server.js the readings a client holds are therefore in the order of
\* their handling (timestamp).
C23_OrderKept ==
  /\ [](\A c \in ClientIds :
          LET box == clients[c].inbox IN
          /\ box # <<>> => box[1].type = "init"
          /\ \A i \in 2..Len(box) : box[i].type = "sensor_update"
          /\ copy = "js" =>
               \A i, j \in 2..Len(box) :
                 i < j => box[i].data.timestamp < box[j].data.timestamp)
  /\ [][\A c \in ClientIds :
          /\ clients'[c].readyState # "none"
               => SubSeq(clients'[c].inbox, 1, Len(clients[c].inbox)) = clients[c].inbox
          /\ \A t \in Topics, b \in Bodies :
               (OnMessage(t, b) /\ Handled(t) /\ clients[c].readyState = "open")
                 => /\ Len(clients'[c].inbox) = Len(clients[c].inbox) + 1
                    /\ copy = "js" => LastEvent(c).data.timestamp = msgCount']_vars

\* a client has received the init event and then the events of two cache
\* updates
C23_Witness ==
  \E c \in ClientIds :
    /\ Len(clients[c].inbox) = 3
    /\ clients[c].inbox[2].type = "sensor_update"
    /\ clients[c].inbox[3].type = "sensor_update"
    /\ clients[c].inbox[2] # clients[c].inbox[3]
    /\ msgCount = 2

\* the topics for which the registry has a schema decoder
KnownTopics == {TopicTemperature, TopicCompass, TopicGps, TopicStatus}

\* C24 as stated: every configured sensor topic has an entry in the registry
\* and no entry is null.
C24_AsStated ==
  /\ DOMAIN topicDecoderMap(config) = SensorTopicSet(config)
  /\ \A t \in SensorTopicSet(config) : topicDecoderMap(config)[t] # "null"

\* C24: every configured sensor topic has an entry in the registry; the entry
\* of a topic of unknown kind is null, and the message handler treats a null
\* entry as raw passthrough: a message on such a topic makes the cache entry of
\* the sensor a reading that carries the bytes of the message (base64) and no
\* error, and every open client is sent one sensor_update with that reading.
C24_NullEntryPassthrough ==
  /\ [](/\ DOMAIN topicDecoderMap(config) = SensorTopicSet(config)
        /\ \A t \in SensorTopicSet(config) \ KnownTopics : topicDecoderMap(config)[t] = "null")
  /\ [][\A t \in Topics, b \in Bodies :
          (/\ OnMessage(t, b)
           /\ copy # "legacy"
           /\ t \in SensorTopicSet(config) \ KnownTopics)
            => /\ SensorKey(t) \in DOMAIN latestSensorData'
               /\ latestSensorData'[SensorKey(t)].object = Raw(b)
               /\ \A c \in ClientIds :
                    clients[c].readyState = "open"
                      => /\ Len(clients'[c].inbox) = Len(clients[c].inbox) + 1
                         /\ LastEvent(c).type = "sensor_update"
                         /\ LastEvent(c).data = latestSensorData'[SensorKey(t)]]_vars

\* a message on a topic of unknown kind was handled: the cache holds its raw
\* reading and an open client has received it
C24_Witness ==
  /\ copy # "legacy"
  /\ SensorTopicSet(config) \ KnownTopics # {}
  /\ \E k \in DOMAIN latestSensorData :
       /\ latestSensorData[k].object.kind = "raw"
       /\ latestSensorData[k].object.error = ""
       /\ \E c \in ClientIds :
            /\ clients[c].readyState = "open"
            /\ Len(clients[c].inbox) >= 2
            /\ clients[c].inbox[Len(clients[c].inbox)].data = latestSensorData[k]

RECURSIVE ApplyEvents(_, _)
\* the view of a client: the sensors of its init event, then the data of every
\* sensor_update stored under the sensor field of the event
ApplyEvents(view, events) ==
  IF events = <<>> THEN view
  ELSE ApplyEvents(CachePut(view, Head(events).sensor, Head(events).data), Tail(events))
ClientView(box) == ApplyEvents(box[1].sensors, Tail(box))

\* C27 as stated: the view of every open client equals the sensor cache.
C27_AsStated ==
  \A c \in ClientIds :
    (copy # "legacy" /\ clients[c].readyState = "open")
      => ClientView(clients[c].inbox) = latestSensorData

\* ------------------------------------------------------------------------
\* Claims about cached readings (checked under SpecCache)
\* ------------------------------------------------------------------------
\* the unit the resolution order gives: the unit declared on the member, else
\* the unit embedded in the payload, else the default of the kind
ExpectedUnit(t, parsed) ==
  IF getUnitForTopic(config, t) # "" THEN getUnitForTopic(config, t)
  ELSE IF parsed.unit # "" THEN parsed.unit
  ELSE IF t = TopicTemperature THEN "C"
  ELSE IF t = TopicCompass THEN "degrees"
  ELSE ""

\* C26 as stated: the reading cached for a decoded message on a temperature
\* sensor has the decoded number as value and as unit the unit declared on the
\* member, else the unit embedded in the payload, else the default unit of the
\* kind.
C26_AsStated ==
  [][\A b \in CacheBodies :
       OnMessage(TopicTemperature, b)
         => /\ latestSensorData'[SensorKey(TopicTemperature)].number
                 = Decode("TemperatureData", b).parsed.number
            /\ latestSensorData'[SensorKey(TopicTemperature)].unit
                 = ExpectedUnit(TopicTemperature, Decode("TemperatureData", b).parsed)]_vars

\* C28 as stated: a message on the topic of one sensor leaves the cached
\* reading of every other configured sensor as it was.
C28_AsStated ==
  [][\A t \in SensorTopicSet(config), b \in CacheBodies :
       OnMessage(t, b)
         => \A other \in SensorTopicSet(config) \ {t} :
              SensorKey(other) \in DOMAIN latestSensorData
                => latestSensorData'[SensorKey(other)] = latestSensorData[SensorKey(other)]]_vars

====
